---------------------------- MODULE Spec2Model ----------------------------
(***************************************************************************)
(* NeuronModel::initialize and NeuronModel::compute of                     *)
(* src/runtime/model.cc: the batch planner, the request builder and the   *)
(* windowed pipeline (fill the window, wait one / post one, confirm the   *)
(* posted requests, drain), run by concurrent callers that share one      *)
(* model object, one device lock and one admission semaphore.             *)
(***************************************************************************)
EXTENDS Integers, Sequences, FiniteSets, TLC

(***************************************************************************)
(* Bounds of the model.                                                    *)
(***************************************************************************)
\* largest runtime leading dimension of an input tensor
MaxBatch == 4
\* largest leading dimension declared in input_shapes / output_shapes
MaxKBatch == 2
\* largest max_num_infers_ parsed from model_config
MaxNinfer == 1

(***************************************************************************)
(* Program constants.                                                      *)
(***************************************************************************)
UNINIT_BATCH_SIZE == -8
\* the member's initial value, kept when initialize never reaches line 148
DEFAULT_MAX_NUM_INFERS == 5

\* the threads that call compute on the one model object
Callers == {1, 2}
NoCaller == 0

\* tensorflow::Status codes that occur; "ERR" is any device error but ABORTED
DevStatus == {"OK", "ABORTED", "ERR"}
\* the Status of a framework call (allocate_output, tensor_memcpy)
FrameworkStatus == {"OK", "ERR"}

Min(a, b) == IF a < b THEN a ELSE b

\* C++ integer division (truncation toward zero), b # 0
CDiv(a, b) ==
    IF (a >= 0) = (b > 0)
      THEN (IF a >= 0 THEN a ELSE -a) \div (IF b > 0 THEN b ELSE -b)
      ELSE -((IF a >= 0 THEN a ELSE -a) \div (IF b > 0 THEN b ELSE -b))

(***************************************************************************)
(* The two error macros.                                                   *)
(***************************************************************************)
\* TF_RETURN_IF_ERROR(s): the function returns s iff s is not OK
TfReturns(s) == s # "OK"

\* RIE_IGNORE_ABORTED(s): ABORTED is swallowed, any other error returns
RieReturns_IgnoreAll(s) == FALSE
RieReturns(s) == s # "ABORTED" /\ TfReturns(s)


(***************************************************************************)
(* Static metadata (node_def) and runtime tensors.  A tensor is described *)
(* by its leading dimension; the trailing dimensions of a runtime tensor  *)
(* are those of its declared shape.                                       *)
(***************************************************************************)
InputIdx == {1, 2}
OutputIdx == {1}
NumInputs == Cardinality(InputIdx)
NumOutputs == Cardinality(OutputIdx)
BatchAxes == {0, -1}

\* the batch sizes a caller may pass, and the ones a model may declare; a
\* declared shape may have a leading dimension of 0
RuntimeDims == 1..MaxBatch
KernelDims == 0..MaxKBatch

\* the lengths of the name, type and shape lists of node_def: those of the
\* well-formed model, or one off
ListSizes ==
    [input_names : {NumInputs - 1, NumInputs},
     input_dtypes : {NumInputs - 1, NumInputs},
     input_shapes : {NumInputs - 1, NumInputs},
     output_names : {NumOutputs, NumOutputs + 1},
     output_dtypes : {NumOutputs, NumOutputs + 1},
     output_shapes : {NumOutputs, NumOutputs + 1}]
WellFormedSizes ==
    [input_names |-> NumInputs, input_dtypes |-> NumInputs,
     input_shapes |-> NumInputs, output_names |-> NumOutputs,
     output_dtypes |-> NumOutputs, output_shapes |-> NumOutputs]

(***************************************************************************)
(* get_io_tensor_sizes, lines 49-88.                                       *)
(***************************************************************************)
\* lines 59-72: the Status for lists of the lengths in sizes
GetIoTensorSizes_InputsOnly(sizes) ==
    IF \/ sizes.input_names # sizes.input_dtypes
       \/ sizes.input_names # sizes.input_shapes
      THEN "FailedPrecondition"
    ELSE "OK"
GetIoTensorSizes(sizes) ==
    IF \/ sizes.input_names # sizes.input_dtypes
       \/ sizes.input_names # sizes.input_shapes
      THEN "FailedPrecondition"
    ELSE IF \/ sizes.output_names # sizes.output_dtypes
            \/ sizes.output_names # sizes.output_shapes
      THEN "FailedPrecondition"
    ELSE "OK"

\* lines 167-171: the checks compute makes before it plans; num_tensors is
\* input_tensors.size()
CheckMetadata(sizes, num_tensors) ==
    IF num_tensors # sizes.input_names THEN "InvalidArgument"
    ELSE GetIoTensorSizes(sizes)

(***************************************************************************)
(* Batch planner: NeuronModel::compute, lines 173-247.                     *)
(***************************************************************************)
\* line 183-188: some input declares a batch axis
EnableDynamicBatchSize(nd) ==
    \E idx \in InputIdx : nd.input_batch_axis[idx] # -1

\* line 218 / 243: a tensor carries a batch dimension iff the sizes differ
IsBatchTensor_Always(batch_size, k_dim0) == TRUE
IsBatchTensor(batch_size, k_dim0) == batch_size # k_dim0

\* line 210: a later batch-axis-0 input must have the batch size of the first
BatchSizeAgrees_Any(batch_size, dim0) == TRUE
BatchSizeAgrees(batch_size, dim0) == batch_size = dim0

\* lines 192-227: the loop over the input tensors, from index idx on, with
\* the values of the locals on entry in acc
RECURSIVE InputPlanner(_, _, _, _)
InputPlanner(nd, dims, idx, acc) ==
    IF idx > NumInputs THEN acc
    ELSE IF nd.input_batch_axis[idx] = 0
      THEN LET first == acc.batch_size = UNINIT_BATCH_SIZE
               bs == IF first THEN dims[idx] ELSE acc.batch_size
               kbs == IF first THEN nd.input_k_dim0[idx] ELSE acc.k_batch_size
           IN  IF first /\ ~(bs > 0)
                 THEN [acc EXCEPT !.status = "Internal", !.bad = idx]
               ELSE IF ~first /\ ~BatchSizeAgrees(acc.batch_size, dims[idx])
                 THEN [acc EXCEPT !.status = "InvalidArgument", !.bad = idx]
               ELSE InputPlanner(nd, dims, idx + 1,
                        [acc EXCEPT !.batch_size = bs,
                                    !.k_batch_size = kbs,
                                    !.use_dynamic_batch_size = IsBatchTensor(bs, kbs),
                                    !.is_batch_input_tensors[idx] = IsBatchTensor(bs, kbs)])
      ELSE IF dims[idx] # nd.input_k_dim0[idx]
             THEN [acc EXCEPT !.status = "InvalidArgument", !.bad = idx]
             ELSE InputPlanner(nd, dims, idx + 1, acc)

\* lines 228-246: the loop over the outputs
RECURSIVE OutputPlanner(_, _, _)
OutputPlanner(nd, idx, acc) ==
    IF idx > NumOutputs THEN acc
    ELSE IF nd.output_batch_axis[idx] = 0
      THEN IF acc.k_batch_size # nd.output_k_dim0[idx]
             THEN [acc EXCEPT !.status = "InvalidArgument", !.bad = idx]
             ELSE OutputPlanner(nd, idx + 1,
                      [acc EXCEPT !.is_batch_output_tensors[idx] =
                                      IsBatchTensor(acc.batch_size, nd.output_k_dim0[idx])])
      ELSE OutputPlanner(nd, idx + 1, acc)

\* lines 173-177: the locals before the planner runs
PlanInit ==
    [status |-> "OK", bad |-> 0,
     batch_size |-> UNINIT_BATCH_SIZE, k_batch_size |-> UNINIT_BATCH_SIZE,
     use_dynamic_batch_size |-> FALSE,
     is_batch_input_tensors |-> [idx \in InputIdx |-> FALSE],
     is_batch_output_tensors |-> [idx \in OutputIdx |-> FALSE]]

\* line 189: the planner runs only if the batch-axis lists, which have one
\* entry per input and per output, are as long as the name lists
PlannerRuns(nd) ==
    /\ EnableDynamicBatchSize(nd)
    /\ nd.sizes.input_names = NumInputs
    /\ nd.sizes.output_names = NumOutputs

\* lines 173-249 as a whole; line 248 compares ctx->num_outputs()
BatchPlan(nd, dims) ==
    LET ins == IF PlannerRuns(nd) THEN InputPlanner(nd, dims, 1, PlanInit)
                                  ELSE PlanInit
        outs == IF PlannerRuns(nd) /\ ins.status = "OK"
                  THEN OutputPlanner(nd, 1, ins) ELSE ins
    IN  IF outs.status = "OK" /\ NumOutputs # nd.sizes.output_names
          THEN [outs EXCEPT !.status = "InvalidArgument"]
          ELSE outs

\* line 255
PadBatchSize_NoCeil(batch_size, k_batch_size) ==
    (CDiv(batch_size, k_batch_size) + 1) * k_batch_size
PadBatchSize(batch_size, k_batch_size) ==
    (CDiv(batch_size - 1, k_batch_size) + 1) * k_batch_size

\* line 267
NumBatches(pad_batch_size, k_batch_size) == CDiv(pad_batch_size, k_batch_size)

\* lines 300-301
WindowSize_Unclamped(max_num_infers, num_batches) ==
    IF max_num_infers > 1 THEN max_num_infers ELSE 1
WindowSize(max_num_infers, num_batches) ==
    Min(IF max_num_infers > 1 THEN max_num_infers ELSE 1, num_batches)

\* lines 353-358 and 406-411: rows [start, limit) of the allocated output that
\* sub-batch post_bidx writes
OutputSlice_Padded(post_bidx, k_batch_size, batch_size) ==
    [start |-> post_bidx * k_batch_size,
     limit |-> post_bidx * k_batch_size + k_batch_size]
OutputSlice(post_bidx, k_batch_size, batch_size) ==
    [start |-> post_bidx * k_batch_size,
     limit |-> Min(post_bidx * k_batch_size + k_batch_size, batch_size)]

\* lines 90-109: check_input_tensors on the tensors handed to one request;
\* rows[idx] is the leading dimension of the tensor passed for input idx
CheckInputTensors_AlwaysOK(nd, rows) == "OK"
CheckInputTensors(nd, rows) ==
    IF \A idx \in InputIdx : rows[idx] = nd.input_k_dim0[idx]
      THEN "OK" ELSE "Internal"

\* lines 345-349 and 398-402: the inputs of one sub-batch; a batch input is
\* the slice built at lines 269-290, which has k_batch_size rows
SlicedInputRows(r) ==
    [idx \in InputIdx |->
        IF r.is_batch_input_tensors[idx] THEN r.k_batch_size ELSE r.dims[idx]]

(***************************************************************************)
(* State.                                                                  *)
(***************************************************************************)
VARIABLES
    node_def,          \* static metadata of the model (attr of node_def)
    env,               \* model_config and environment read by initialize
    input_tensors,     \* per caller: the leading dimensions of the tensors it passes
    faulty,            \* the callers whose calls the device may answer with an error
    neuron_device_,    \* TRUE iff the member is not nullptr
    nn_loaded_,        \* TRUE iff load has given nn_id_
    max_num_infers_,
    infer_sem_,        \* TRUE iff the member is not nullptr
    sem_free,          \* free capacity of *infer_sem_
    profile_enabled_,  \* profile_.enabled_
    mutex_eg_,         \* the caller holding the device lock, or NoCaller
    inv                \* per caller: the locals of its call of compute

vars == <<node_def, env, input_tensors, faulty, neuron_device_, nn_loaded_, max_num_infers_,
          infer_sem_, sem_free, profile_enabled_, mutex_eg_, inv>>
staticVars == <<node_def, env, input_tensors, faulty>>
modelVars == <<neuron_device_, nn_loaded_, max_num_infers_, infer_sem_,
               profile_enabled_>>

\* a declared leading dimension other than h
OtherDim(h) == IF h = 0 THEN 1 ELSE (h % MaxKBatch) + 1

\* the models: each input and output with or without a batch axis; the
\* first input and the outputs are declared with the leading dimension h,
\* the later inputs with h or with another one
NodeDefs ==
    { [sizes |-> sz,
       input_batch_axis |-> ia,
       input_k_dim0 |-> [idx \in InputIdx |->
                            IF idx = 1 \/ same THEN h ELSE OtherDim(h)],
       output_batch_axis |-> oa,
       output_k_dim0 |-> [idx \in OutputIdx |-> h]] :
        sz \in ListSizes,
        ia \in [InputIdx -> BatchAxes], oa \in [OutputIdx -> BatchAxes],
        h \in KernelDims, same \in BOOLEAN }

SemaphoreFactors == {1, 2}

\* the factor enters only through its product with ninfer (lines 148-149):
\* a factor above 1 is paired with the largest ninfer, which gives every
\* product the other pairs give
Envs ==
    { e \in [ninfer : 0..MaxNinfer, semaphore_factor : SemaphoreFactors,
             unlimited_threads : BOOLEAN, profile : BOOLEAN] :
        e.semaphore_factor = 1 \/ e.ninfer = MaxNinfer }

\* the locals of compute before the call
InvInit ==
    [pc |-> "idle", status |-> "NONE",
     dims |-> [idx \in InputIdx |-> 0],
     batch_size |-> UNINIT_BATCH_SIZE, k_batch_size |-> UNINIT_BATCH_SIZE,
     use_dynamic_batch_size |-> FALSE,
     is_batch_input_tensors |-> [idx \in InputIdx |-> FALSE],
     is_batch_output_tensors |-> [idx \in OutputIdx |-> FALSE],
     bad |-> 0,
     allocated |-> FALSE,
     output_rows |-> [idx \in OutputIdx |-> 0],
     pad_batch_size |-> 0, num_batches |-> 0, window_size |-> 0,
     first_need_wait_infer_post_bidx |-> 0,
     post_bidx |-> 0, wait_bidx |-> 0,
     scoped_io_queue |-> <<>>,
     need_wait_infer_post |-> <<>>,
     sem_res_queue |-> 0,
     failed_at |-> <<>>,
     batches_neuron_input_tensors |-> <<>>,
     batches_sliced_outputs |-> <<>>,
     requests |-> <<>>,
     device_error |-> "",
     log |-> <<>>]

\* the model object after construction
InitModel ==
    /\ neuron_device_ = FALSE
    /\ nn_loaded_ = FALSE
    /\ max_num_infers_ = DEFAULT_MAX_NUM_INFERS
    /\ infer_sem_ = FALSE
    /\ sem_free = 0
    /\ profile_enabled_ = FALSE
    /\ mutex_eg_ = NoCaller

\* the environment paired with a model whose lists are malformed: compute
\* returns at line 171 or before, initialize and its environment unread
UnreadEnv ==
    [ninfer |-> 1, semaphore_factor |-> 1, unlimited_threads |-> FALSE,
     profile |-> FALSE]

\* one caller, any model, any tensors, any answer of the device
Init ==
    /\ node_def \in NodeDefs
    /\ env \in Envs
    /\ node_def.sizes # WellFormedSizes => env = UnreadEnv
    /\ \E dims \in [InputIdx -> RuntimeDims] :
         /\ node_def.sizes # WellFormedSizes => \A idx \in InputIdx : dims[idx] = 1
         /\ input_tensors = [i \in Callers |->
                                IF i = 1 THEN dims ELSE [idx \in InputIdx |-> 1]]
    /\ faulty = {1}
    /\ InitModel
    /\ inv = [i \in Callers |->
                 IF i = 1 THEN InvInit ELSE [InvInit EXCEPT !.pc = "absent"]]

(***************************************************************************)
(* Helpers of the actions.                                                 *)
(***************************************************************************)
\* what a call of caller i may return
DevOutcomes(i) == IF i \in faulty THEN DevStatus ELSE {"OK"}
FrameworkOutcomes(i) == IF i \in faulty THEN FrameworkStatus ELSE {"OK"}

\* a call of the device wrapped in TF_RETURN_IF_ERROR or RIE_IGNORE_ABORTED
\* that answers st: the status, and whether the macro makes compute return
Tf(st) == [st |-> st, returns |-> TfReturns(st)]
Rie(st) == [st |-> st, returns |-> RieReturns(st)]

\* Of the calls that one statement group makes in this order, each made
\* only if no earlier one made compute return: the first error other than
\* ABORTED that the device answered, "" if there is none.
RECURSIVE DeviceError(_, _)
DeviceError(calls, k) ==
    IF k > Len(calls) THEN ""
    ELSE IF calls[k].st \notin {"OK", "ABORTED"} THEN calls[k].st
    ELSE IF calls[k].returns THEN ""
    ELSE DeviceError(calls, k + 1)

\* the locals with the first such error of the invocation noted
Observe(r, calls) ==
    [r EXCEPT !.device_error = IF @ # "" THEN @ ELSE DeviceError(calls, 1)]

\* one call made by compute, for sub-batch bidx (or -1)
Call(op, bidx) == [op |-> op, bidx |-> bidx]
Logged(r, op, bidx) == [r EXCEPT !.log = Append(@, Call(op, bidx))]

\* line 456, and every return inside the scope opened at line 333: the
\* mutex_lock_queue is destroyed and with it the lock this caller holds
DeviceScopeEnd_KeepLock(holder, i) == holder
DeviceScopeEnd(holder, i) == IF holder = i THEN NoCaller ELSE holder

\* line 471, and every return inside the scope opened at line 331: the
\* reservations still in sem_res_queue go back to the semaphore
SemScopeEnd(free, r) == free + r.sem_res_queue

Step(i, r, holder, free) ==
    /\ inv' = [inv EXCEPT ![i] = r]
    /\ mutex_eg_' = holder
    /\ sem_free' = free

\* compute goes on at label pc with locals r
Goto(i, r, pc) == Step(i, [r EXCEPT !.pc = pc], mutex_eg_, sem_free)

\* compute returns st: the scopes are left
Return(i, r, st) ==
    Step(i, [r EXCEPT !.pc = "done", !.status = st, !.sem_res_queue = 0],
         DeviceScopeEnd(mutex_eg_, i), SemScopeEnd(sem_free, r))

\* compute returns the error st of the call op made for sub-batch bidx
Fail(i, r, st, op, bidx) ==
    Return(i, [r EXCEPT !.failed_at = <<Call(op, bidx)>>], st)

(***************************************************************************)
(* compute, lines 158-298: plan, allocate, slice, initialize.              *)
(***************************************************************************)
\* lines 164-249: the metadata checks, then the planner accepts or rejects the tensors the caller passes
Plan(i) ==
    /\ inv[i].pc = "idle"
    /\ LET dims == input_tensors[i]
           meta == CheckMetadata(node_def.sizes, NumInputs)
           p == IF meta # "OK" THEN [PlanInit EXCEPT !.status = meta]
                               ELSE BatchPlan(node_def, dims)
           r == [inv[i] EXCEPT
                    !.dims = dims,
                    !.batch_size = p.batch_size,
                    !.k_batch_size = p.k_batch_size,
                    !.use_dynamic_batch_size = p.use_dynamic_batch_size,
                    !.is_batch_input_tensors = p.is_batch_input_tensors,
                    !.is_batch_output_tensors = p.is_batch_output_tensors,
                    !.bad = p.bad]
       IN  IF p.status # "OK" THEN Return(i, r, p.status)
                              ELSE Goto(i, r, "allocate")
    /\ UNCHANGED <<staticVars, modelVars>>

\* lines 259-262 and 476: the leading dimension of the output allocated
AllocatedRows(r, idx) ==
    IF r.use_dynamic_batch_size /\ r.is_batch_output_tensors[idx]
      THEN r.batch_size ELSE node_def.output_k_dim0[idx]

\* line 255 divides by k_batch_size, which nothing before it has compared
\* with 0
DividesByZero(r) == r.use_dynamic_batch_size /\ r.k_batch_size = 0

\* lines 254-267 (dynamic) and 473-477 (single shot): ctx->allocate_output.
\* An integer division by zero at line 255 is undefined: whatever the build
\* does then is the outcome "UB", of which nothing more is said.
Allocate(i) ==
    /\ inv[i].pc = "allocate"
    /\ \E st \in FrameworkOutcomes(i) :
         LET r0 == inv[i]
             pad == PadBatchSize(r0.batch_size, r0.k_batch_size)
             r == IF r0.use_dynamic_batch_size
                    THEN [r0 EXCEPT
                            !.pad_batch_size = pad,
                            !.num_batches = NumBatches(pad, r0.k_batch_size),
                            !.allocated = TRUE,
                            !.output_rows = [idx \in OutputIdx |-> AllocatedRows(r0, idx)]]
                    ELSE [r0 EXCEPT
                            !.allocated = TRUE,
                            !.output_rows = [idx \in OutputIdx |-> AllocatedRows(r0, idx)]]
         IN  IF DividesByZero(r0) THEN Return(i, r0, "UB")
             ELSE IF TfReturns(st) THEN Return(i, r0, st)
             ELSE Goto(i, r, IF r0.use_dynamic_batch_size THEN "slice" ELSE "initialize")
    /\ UNCHANGED <<staticVars, modelVars>>

\* lines 270-290: the input of sub-batch batch_idx for a batch input: a view
\* of rows [start, limit) of the caller's tensor, or for the last sub-batch a
\* fresh tensor of k_batch_size rows holding rows [start, limit) followed by
\* zeros from row zero_from on
InputSlice_CopyOnlyRagged(batch_idx, r) ==
    IF batch_idx = r.num_batches - 1 /\ r.pad_batch_size # r.batch_size
      THEN [copied |-> TRUE,
            start |-> batch_idx * r.k_batch_size,
            limit |-> r.batch_size,
            zero_from |-> r.k_batch_size - (r.pad_batch_size - r.batch_size)]
      ELSE [copied |-> FALSE,
            start |-> batch_idx * r.k_batch_size,
            limit |-> batch_idx * r.k_batch_size + r.k_batch_size,
            zero_from |-> r.k_batch_size]
InputSlice(batch_idx, r) ==
    IF batch_idx = r.num_batches - 1
      THEN [copied |-> TRUE,
            start |-> batch_idx * r.k_batch_size,
            limit |-> r.batch_size,
            zero_from |-> r.k_batch_size - (r.pad_batch_size - r.batch_size)]
      ELSE [copied |-> FALSE,
            start |-> batch_idx * r.k_batch_size,
            limit |-> batch_idx * r.k_batch_size + r.k_batch_size,
            zero_from |-> r.k_batch_size]

\* lines 268-295: tensor_memset or tensor_memcpy may fail
SliceInputs(i) ==
    /\ inv[i].pc = "slice"
    /\ \E st \in FrameworkOutcomes(i) :
         LET r0 == inv[i]
             r == [r0 EXCEPT !.batches_neuron_input_tensors =
                       [b \in 1..r0.num_batches |-> InputSlice(b - 1, r0)]]
         IN  IF TfReturns(st) THEN Return(i, r0, st)
                              ELSE Goto(i, r, "initialize")
    /\ UNCHANGED <<staticVars, modelVars>>

(***************************************************************************)
(* NeuronModel::initialize, lines 112-156, run under mutex_model_.         *)
(***************************************************************************)
\* lines 148-149; the product is far below the 2^32 at which the member wraps
ConfiguredInfers(e) == e.ninfer * e.semaphore_factor

\* The status initialize returns and the members it leaves, given the status
\* apply of apply_for_device and load of NeuronDevice::load.
InitializeResult(apply, load) ==
    LET before == [status |-> "OK", device |-> neuron_device_, loaded |-> nn_loaded_,
                   infers |-> max_num_infers_, sem |-> infer_sem_, free |-> sem_free,
                   profile |-> profile_enabled_]
    IN  IF neuron_device_ THEN before
        ELSE IF TfReturns(apply)
          THEN [before EXCEPT !.status = apply, !.profile = env.profile]
        ELSE IF TfReturns(load)
          THEN [before EXCEPT !.status = load, !.profile = env.profile,
                              !.device = TRUE]
        ELSE [before EXCEPT !.profile = env.profile, !.device = TRUE,
                            !.loaded = TRUE,
                            !.infers = ConfiguredInfers(env),
                            !.sem = infer_sem_ \/ ~env.unlimited_threads,
                            !.free = IF ~infer_sem_ /\ ~env.unlimited_threads
                                       THEN ConfiguredInfers(env) ELSE sem_free]

\* lines 297-301 and 478-479: compute calls initialize, ignores ABORTED,
\* dereferences neuron_device_ and sizes the window
Initialize(i) ==
    /\ inv[i].pc = "initialize"
    /\ \E apply \in DevOutcomes(i), load \in DevOutcomes(i) :
         LET res == InitializeResult(apply, load)
             r0 == Observe(inv[i], <<Rie(res.status)>>)
             w == WindowSize(res.infers, r0.num_batches)
             r == IF r0.use_dynamic_batch_size
                    THEN [r0 EXCEPT !.window_size = w] ELSE r0
         IN  /\ neuron_device_' = res.device
             /\ nn_loaded_' = res.loaded
             /\ max_num_infers_' = res.infers
             /\ infer_sem_' = res.sem
             /\ profile_enabled_' = res.profile
             /\ IF RieReturns(res.status)
                  THEN Step(i, [r0 EXCEPT !.pc = "done", !.status = res.status],
                            mutex_eg_, res.free)
                ELSE IF ~res.device
                  \* line 298 / 479: neuron_device_ is nullptr and is dereferenced
                  THEN Step(i, [r0 EXCEPT !.pc = "done", !.status = "UB"],
                            mutex_eg_, res.free)
                ELSE Step(i, [r EXCEPT !.pc =
                                 IF ~r0.use_dynamic_batch_size THEN "single_setup"
                                 ELSE IF res.profile THEN "profile" ELSE "lock"],
                          mutex_eg_, res.free)
    /\ UNCHANGED staticVars

(***************************************************************************)
(* The collaborators of compute that live in NeuronDevice: the device     *)
(* lock and the admission semaphore.                                       *)
(***************************************************************************)
\* acquire_mutex returns once no other caller holds the device lock
MutexFree(holder) == holder = NoCaller

\* acquire_sem returns once the semaphore has a free unit, and pushes the
\* reservation of one unit on sem_res_queue
SemCanAcquire(free) == free > 0

\* release_sem pops one reservation, which gives its unit back
SemReleased(r) == IF r.sem_res_queue > 0 THEN 1 ELSE 0

(***************************************************************************)
(* compute, lines 303-471: the dynamic-batch pipeline.                     *)
(***************************************************************************)
\* line 379 / 427 / 438: the posted variant is used from this index on
Posted_AfterFirst(r, bidx) == bidx > r.first_need_wait_infer_post_bidx
Posted(r, bidx) == bidx >= r.first_need_wait_infer_post_bidx
SetupInferOp(r, bidx) == IF Posted(r, bidx) THEN "setup_infer_post" ELSE "setup_infer"
PostInferOp_Normal(r, bidx) == "post_infer"
PostInferOp(r, bidx) == IF Posted(r, bidx) THEN "post_infer_post" ELSE "post_infer"

\* lines 355-363 and 408-416: the slices pushed for sub-batch post_bidx, an
\* empty tensor (no rows) for an output that carries no batch dimension
SlicedOutputs_ByWindowSlot(r, post_bidx) ==
    [idx \in OutputIdx |->
        IF r.is_batch_output_tensors[idx]
          THEN OutputSlice(post_bidx % r.window_size, r.k_batch_size, r.batch_size)
          ELSE [start |-> 0, limit |-> 0]]
SlicedOutputs(r, post_bidx) ==
    [idx \in OutputIdx |->
        IF r.is_batch_output_tensors[idx]
          THEN OutputSlice(post_bidx, r.k_batch_size, r.batch_size)
          ELSE [start |-> 0, limit |-> 0]]

\* the statements of the three loop bodies, in program order
\* lines 343-393
FillOrder_NoAcquire == <<"fill_setup", "fill_setup_infer", "fill_post">>
FillOrder == <<"fill_setup", "fill_acquire", "fill_setup_infer", "fill_post">>
\* lines 396-446
SteadyOrder_WaitBeforeSetup ==
    <<"steady_setup", "steady_wait", "steady_setup_infer", "steady_post",
      "steady_retire">>
SteadyOrder_PostBeforeWait ==
    <<"steady_setup", "steady_setup_infer", "steady_post", "steady_wait",
      "steady_retire">>
SteadyOrder ==
    <<"steady_setup", "steady_setup_infer", "steady_wait", "steady_post",
      "steady_retire">>
\* lines 459-470
DrainOrder_ReleaseAfterFinish == <<"drain_wait", "drain_retire", "drain_release">>
DrainOrder == <<"drain_wait", "drain_release", "drain_retire">>

\* lines 434 and 465: scoped_io_queue.front(), the oldest request
QueueFront_Newest(queue) == queue[Len(queue)]
QueueFront(queue) == Head(queue)

\* the statement after pc in a loop body, "" after the last
After(order, pc) ==
    LET k == CHOOSE k \in 1..Len(order) : order[k] = pc
    IN  IF k < Len(order) THEN order[k + 1] ELSE ""

\* lines 343, 396: the loop tests, entered with post_bidx already advanced
PipelineLoop_FillOneMore(r) ==
    IF r.post_bidx <= r.window_size /\ r.post_bidx < r.num_batches THEN FillOrder[1]
    ELSE IF r.post_bidx < r.num_batches THEN SteadyOrder[1]
    ELSE "confirm_assert"
PipelineLoop(r) ==
    IF r.post_bidx < r.window_size THEN FillOrder[1]
    ELSE IF r.post_bidx < r.num_batches THEN SteadyOrder[1]
    ELSE "confirm_assert"

\* lines 304-327: the extra inference run upfront when the profiler is on
Profile(i) ==
    /\ inv[i].pc = "profile"
    /\ \E setup \in DevOutcomes(i), infer \in DevOutcomes(i), finish \in DevOutcomes(i) :
         LET r0 == IF TfReturns(CheckInputTensors(node_def, SlicedInputRows(inv[i]))) THEN inv[i] ELSE Observe(inv[i], <<Rie(setup), Tf(infer), Rie(finish)>>)
             chk == CheckInputTensors(node_def, SlicedInputRows(r0))
             r1 == Logged(r0, "check_input_tensors", 0)
             r2 == Logged(r1, "setup_scoped_runtime_io", 0)
             r3 == Logged(r2, "infer_with_profiling", 0)
             r4 == Logged(r3, "finish", 0)
         IN  IF TfReturns(chk) THEN Fail(i, r0, chk, "check_input_tensors", 0)
             ELSE IF RieReturns(setup)
               THEN Fail(i, r1, setup, "setup_scoped_runtime_io", 0)
             ELSE IF TfReturns(infer)
               THEN Fail(i, r2, infer, "infer_with_profiling", 0)
             ELSE IF RieReturns(finish) THEN Fail(i, r3, finish, "finish", 0)
             ELSE Goto(i, r4, "lock")
    /\ UNCHANGED <<staticVars, modelVars>>

\* line 337: acquire_mutex blocks until the device lock is free; line 336
AcquireMutex(i) ==
    /\ inv[i].pc = "lock"
    /\ MutexFree(mutex_eg_)
    /\ Step(i, [Logged(inv[i], "acquire_mutex", -1) EXCEPT
                   !.pc = "start",
                   !.first_need_wait_infer_post_bidx =
                       inv[i].num_batches - inv[i].window_size],
            i, sem_free)
    /\ UNCHANGED <<staticVars, modelVars>>

\* lines 338-343: start_model_unsafe and start_ping
StartModel(i) ==
    /\ inv[i].pc = "start"
    /\ \E start \in DevOutcomes(i), ping \in DevOutcomes(i) :
         LET r0 == Observe(inv[i], <<Rie(start), Rie(ping)>>)
             r1 == Logged(r0, "start_model_unsafe", -1)
             r2 == [Logged(r1, "start_ping", -1) EXCEPT !.post_bidx = 0]
         IN  IF RieReturns(start) THEN Fail(i, r0, start, "start_model_unsafe", -1)
             ELSE IF RieReturns(ping) THEN Fail(i, r1, ping, "start_ping", -1)
             ELSE Goto(i, r2, PipelineLoop(r2))
    /\ UNCHANGED <<staticVars, modelVars>>

\* lines 345-349, 364-372 and 398-402, 417-425: the tensors handed to
\* setup_scoped_runtime_io for sub-batch post_bidx: for the inputs that carry
\* a batch dimension the slice batches_neuron_input_tensors[post_bidx], for
\* the outputs that do the slices batches_sliced_outputs[post_bidx]
RuntimeIO(r, post_bidx) ==
    [bidx |-> post_bidx,
     sliced_inputs |-> r.batches_neuron_input_tensors[post_bidx + 1],
     output_tensors |-> r.batches_sliced_outputs[post_bidx + 1]]

\* lines 344-372 and 397-425: validate the inputs of sub-batch post_bidx,
\* slice its outputs, emplace its ScopedRuntimeIO and set it up
RequestSetup(i, order) ==
    /\ inv[i].pc = order[1]
    /\ \E setup \in DevOutcomes(i) :
         LET r0 == IF TfReturns(CheckInputTensors(node_def, SlicedInputRows(inv[i]))) THEN inv[i] ELSE Observe(inv[i], <<Rie(setup)>>)
             b == r0.post_bidx
             chk == CheckInputTensors(node_def, SlicedInputRows(r0))
             r1 == [Logged(r0, "check_input_tensors", b) EXCEPT
                       !.batches_sliced_outputs = Append(@, SlicedOutputs(r0, b)),
                       !.scoped_io_queue = Append(@, b)]
             r2 == [Logged(r1, "setup_scoped_runtime_io", b) EXCEPT
                       !.requests = Append(@, RuntimeIO(r1, b))]
         IN  IF TfReturns(chk) THEN Fail(i, r0, chk, "check_input_tensors", b)
             ELSE IF RieReturns(setup)
               THEN Fail(i, r1, setup, "setup_scoped_runtime_io", b)
             ELSE Goto(i, r2, After(order, order[1]))
    /\ UNCHANGED <<staticVars, modelVars>>

FillSetup(i) == RequestSetup(i, FillOrder)

\* lines 373-375: acquire_sem blocks until the semaphore has a free unit
FillAcquire(i) ==
    /\ inv[i].pc = "fill_acquire"
    /\ LET r0 == inv[i]
           b == r0.post_bidx
           next == After(FillOrder, "fill_acquire")
       IN  IF infer_sem_
             THEN /\ SemCanAcquire(sem_free)
                  /\ \E st \in DevOutcomes(i) :
                       LET r1 == Observe(r0, <<Tf(st)>>)
                       IN  IF TfReturns(st) THEN Fail(i, r1, st, "acquire_sem", b)
                           ELSE Step(i, [Logged(r1, "acquire_sem", b) EXCEPT
                                            !.pc = next,
                                            !.sem_res_queue = @ + 1],
                                     mutex_eg_, sem_free - 1)
             ELSE Goto(i, r0, next)
    /\ UNCHANGED <<staticVars, modelVars>>

\* lines 380 / 387 and 427-431: setup_infer or setup_infer_post of the
\* request at the back of the queue
RequestSetupInfer(i, order, pc) ==
    /\ inv[i].pc = pc
    /\ \E st \in DevOutcomes(i) :
         LET r0 == Observe(inv[i], <<Tf(st)>>)
             b == r0.post_bidx
             op == SetupInferOp(r0, b)
         IN  IF TfReturns(st) THEN Fail(i, r0, st, op, b)
             ELSE Goto(i, Logged(r0, op, b), After(order, pc))
    /\ UNCHANGED <<staticVars, modelVars>>

FillSetupInfer(i) == RequestSetupInfer(i, FillOrder, "fill_setup_infer")
SteadySetupInfer(i) == RequestSetupInfer(i, SteadyOrder, "steady_setup_infer")

\* lines 384-385 / 391 and 438-443: post_infer or post_infer_post of the
\* request at the back of the queue
RequestPosted(r0) ==
    LET b == r0.post_bidx
        r1 == Logged(r0, PostInferOp(r0, b), b)
    IN  IF Posted(r0, b)
          THEN [r1 EXCEPT !.need_wait_infer_post = Append(@, b)] ELSE r1

\* line 393: the Filling loop steps to the next sub-batch
FillPost(i) ==
    /\ inv[i].pc = "fill_post"
    /\ \E st \in DevOutcomes(i) :
         LET r0 == Observe(inv[i], <<Tf(st)>>)
             b == r0.post_bidx
             r1 == [RequestPosted(r0) EXCEPT !.post_bidx = b + 1]
         IN  IF TfReturns(st) THEN Fail(i, r0, st, PostInferOp(r0, b), b)
             ELSE Goto(i, r1, PipelineLoop(r1))
    /\ UNCHANGED <<staticVars, modelVars>>

SteadySetup(i) == RequestSetup(i, SteadyOrder)

\* lines 433-435: wait_infer on the request at the front of the queue
SteadyWait(i) ==
    /\ inv[i].pc = "steady_wait"
    /\ \E st \in DevOutcomes(i) :
         LET r0 == Observe(inv[i], <<Tf(st)>>)
             f == QueueFront(r0.scoped_io_queue)
         IN  IF TfReturns(st) THEN Fail(i, r0, st, "wait_infer", f)
             ELSE Goto(i, Logged(r0, "wait_infer", f), After(SteadyOrder, "steady_wait"))
    /\ UNCHANGED <<staticVars, modelVars>>

SteadyPost(i) ==
    /\ inv[i].pc = "steady_post"
    /\ \E st \in DevOutcomes(i) :
         LET r0 == Observe(inv[i], <<Tf(st)>>)
             b == r0.post_bidx
         IN  IF TfReturns(st) THEN Fail(i, r0, st, PostInferOp(r0, b), b)
             ELSE Goto(i, RequestPosted(r0), After(SteadyOrder, "steady_post"))
    /\ UNCHANGED <<staticVars, modelVars>>

\* lines 444-446: finish and pop the front request, next sub-batch
SteadyRetire(i) ==
    /\ inv[i].pc = "steady_retire"
    /\ \E st \in DevOutcomes(i) :
         LET r0 == Observe(inv[i], <<Rie(st)>>)
             f == QueueFront(r0.scoped_io_queue)
             r1 == [Logged(Logged(r0, "finish", f), "pop", f) EXCEPT
                       !.scoped_io_queue = Tail(@),
                       !.post_bidx = @ + 1]
         IN  IF RieReturns(st) THEN Fail(i, r0, st, "finish", f)
             ELSE Goto(i, r1, PipelineLoop(r1))
    /\ UNCHANGED <<staticVars, modelVars>>

\* lines 449-450: every request of the last window was posted
ConfirmAssert(i) ==
    /\ inv[i].pc = "confirm_assert"
    /\ LET r0 == inv[i]
       IN  IF Len(r0.need_wait_infer_post) # r0.window_size
             THEN Fail(i, r0, "Internal", "assert_queue_length", -1)
             ELSE Goto(i, [r0 EXCEPT !.wait_bidx = 0], "confirm_wait")
    /\ UNCHANGED <<staticVars, modelVars>>

\* line 459-462: the test of the Draining loop
DrainLoop_OneShort(r) ==
    IF r.wait_bidx < r.window_size - 1 /\ r.scoped_io_queue # <<>>
      THEN DrainOrder[1] ELSE ""
DrainLoop(r) ==
    IF r.wait_bidx < r.window_size /\ r.scoped_io_queue # <<>>
      THEN DrainOrder[1] ELSE ""

\* lines 451-456: wait_infer_post on each posted request; after the last
\* one the device scope ends (line 456) and Draining begins
ConfirmWait(i) ==
    /\ inv[i].pc = "confirm_wait"
    /\ \E st \in DevOutcomes(i) :
         LET r0 == Observe(inv[i], <<Tf(st)>>)
             f == Head(r0.need_wait_infer_post)
             r1 == [Logged(r0, "wait_infer_post", f) EXCEPT
                       !.need_wait_infer_post = Tail(@),
                       !.wait_bidx = @ + 1]
             r2 == [r1 EXCEPT !.wait_bidx = 0]
         IN  IF TfReturns(st) THEN Fail(i, r0, st, "wait_infer_post", f)
             ELSE IF r1.wait_bidx < r1.window_size THEN Goto(i, r1, "confirm_wait")
             ELSE IF DrainLoop(r2) = "" THEN Return(i, r2, "OK")
             ELSE Step(i, [r2 EXCEPT !.pc = DrainLoop(r2)],
                       DeviceScopeEnd(mutex_eg_, i), sem_free)
    /\ UNCHANGED <<staticVars, modelVars>>

\* lines 463-466: infer_wait on the request at the front of the queue
DrainWait(i) ==
    /\ inv[i].pc = "drain_wait"
    /\ \E st \in DevOutcomes(i) :
         LET r0 == Observe(inv[i], <<Tf(st)>>)
             f == QueueFront(r0.scoped_io_queue)
         IN  IF TfReturns(st) THEN Fail(i, r0, st, "infer_wait", f)
             ELSE Goto(i, Logged(r0, "infer_wait", f), After(DrainOrder, "drain_wait"))
    /\ UNCHANGED <<staticVars, modelVars>>

\* line 467: release_sem, called whether or not there is a semaphore
DrainRelease(i) ==
    /\ inv[i].pc = "drain_release"
    /\ \E st \in DevOutcomes(i) :
         LET r0 == Observe(inv[i], <<Tf(st)>>)
             f == QueueFront(r0.scoped_io_queue)
             n == SemReleased(r0)
         IN  IF TfReturns(st) THEN Fail(i, r0, st, "release_sem", f)
             ELSE Step(i, [Logged(r0, "release_sem", f) EXCEPT
                              !.pc = After(DrainOrder, "drain_release"),
                              !.sem_res_queue = @ - n],
                       mutex_eg_, sem_free + n)
    /\ UNCHANGED <<staticVars, modelVars>>

\* lines 468-471 and 495-497: finish and pop the front request; after the
\* last one compute returns OK
DrainRetire(i) ==
    /\ inv[i].pc = "drain_retire"
    /\ \E st \in DevOutcomes(i) :
         LET r0 == Observe(inv[i], <<Rie(st)>>)
             f == QueueFront(r0.scoped_io_queue)
             r1 == [Logged(Logged(r0, "finish", f), "pop", f) EXCEPT
                       !.scoped_io_queue = Tail(@),
                       !.wait_bidx = @ + 1]
         IN  IF RieReturns(st) THEN Fail(i, r0, st, "finish", f)
             ELSE IF DrainLoop(r1) = "" THEN Return(i, r1, "OK")
             ELSE Goto(i, r1, DrainLoop(r1))
    /\ UNCHANGED <<staticVars, modelVars>>

(***************************************************************************)
(* compute, lines 472-494: the single-shot path.                           *)
(***************************************************************************)
\* lines 480-484
SingleSetup(i) ==
    /\ inv[i].pc = "single_setup"
    /\ \E setup \in DevOutcomes(i) :
         LET r0 == IF TfReturns(CheckInputTensors(node_def, inv[i].dims)) THEN inv[i] ELSE Observe(inv[i], <<Rie(setup)>>)
             chk == CheckInputTensors(node_def, r0.dims)
             r1 == Logged(r0, "check_input_tensors", -1)
             r2 == Logged(r1, "setup_scoped_runtime_io", -1)
         IN  IF TfReturns(chk) THEN Fail(i, r0, chk, "check_input_tensors", -1)
             ELSE IF RieReturns(setup)
               THEN Fail(i, r1, setup, "setup_scoped_runtime_io", -1)
             ELSE Goto(i, r2, "single_infer")
    /\ UNCHANGED <<staticVars, modelVars>>

\* lines 485-492: the one request is handed to infer_with_profiling, or to
\* infer together with infer_sem_, which gates it by the semaphore
SingleInfer(i) ==
    /\ inv[i].pc = "single_infer"
    /\ LET r0 == inv[i]
       IN  IF profile_enabled_
             THEN Goto(i, Logged(r0, "infer_with_profiling", -1), "single_wait")
           ELSE IF infer_sem_
             THEN /\ SemCanAcquire(sem_free)
                  /\ Step(i, [Logged(r0, "infer", -1) EXCEPT
                                 !.pc = "single_wait", !.sem_res_queue = @ + 1],
                          mutex_eg_, sem_free - 1)
           ELSE Goto(i, Logged(r0, "infer", -1), "single_wait")
    /\ UNCHANGED <<staticVars, modelVars>>

\* the request completes and infer returns
SingleWait(i) ==
    /\ inv[i].pc = "single_wait"
    /\ \E st \in DevOutcomes(i) :
         LET r0 == Observe(inv[i], <<Rie(st)>>)
             r1 == [Logged(r0, "infer_return", -1) EXCEPT !.sem_res_queue = 0]
         IN  IF RieReturns(st) THEN Fail(i, r0, st, "infer", -1)
             ELSE Step(i, [r1 EXCEPT !.pc = "single_finish"],
                       mutex_eg_, SemScopeEnd(sem_free, r0))
    /\ UNCHANGED <<staticVars, modelVars>>

\* lines 493-497
SingleFinish(i) ==
    /\ inv[i].pc = "single_finish"
    /\ \E st \in DevOutcomes(i) :
         LET r0 == Observe(inv[i], <<Rie(st)>>)
         IN  IF RieReturns(st) THEN Fail(i, r0, st, "finish", -1)
             ELSE Return(i, Logged(r0, "finish", -1), "OK")
    /\ UNCHANGED <<staticVars, modelVars>>

(***************************************************************************)
(* The callers run concurrently, one statement at a time.                  *)
(***************************************************************************)
Next ==
    \E i \in Callers :
        \/ Plan(i)
        \/ Allocate(i)
        \/ SliceInputs(i)
        \/ Initialize(i)
        \/ Profile(i)
        \/ AcquireMutex(i)
        \/ StartModel(i)
        \/ FillSetup(i)
        \/ FillAcquire(i)
        \/ FillSetupInfer(i)
        \/ FillPost(i)
        \/ SteadySetup(i)
        \/ SteadySetupInfer(i)
        \/ SteadyWait(i)
        \/ SteadyPost(i)
        \/ SteadyRetire(i)
        \/ ConfirmAssert(i)
        \/ ConfirmWait(i)
        \/ DrainWait(i)
        \/ DrainRelease(i)
        \/ DrainRetire(i)
        \/ SingleSetup(i)
        \/ SingleInfer(i)
        \/ SingleWait(i)
        \/ SingleFinish(i)

Spec == Init /\ [][Next]_vars

(***************************************************************************)
(* Two callers at once on a model whose tensors all carry the batch axis  *)
(* and are declared with the same leading dimension:                      *)
(* the second passes the batch of the first or exactly the declared one,  *)
(* and the device may fail the calls of the first.                        *)
(***************************************************************************)
BatchedNodeDefs ==
    { nd \in NodeDefs :
        /\ nd.sizes = WellFormedSizes
        /\ \A idx \in InputIdx : nd.input_k_dim0[idx] = nd.input_k_dim0[1]
        /\ \A idx \in InputIdx : nd.input_batch_axis[idx] = 0
        /\ \A idx \in OutputIdx : nd.output_batch_axis[idx] = 0 }

InitConc ==
    /\ node_def \in BatchedNodeDefs
    /\ env \in Envs
    /\ env.ninfer >= 1
    /\ \E sizes \in [Callers -> RuntimeDims] :
         /\ \A i \in Callers \ {1} :
               sizes[i] \in {sizes[1], node_def.input_k_dim0[1]}
         /\ input_tensors = [i \in Callers |-> [idx \in InputIdx |-> sizes[i]]]
    /\ faulty = {1}
    /\ InitModel
    /\ inv = [i \in Callers |-> InvInit]

SpecConc == InitConc /\ [][Next]_vars

\* The same callers with the semaphore enabled and a device that answers
\* every call without an error, under fair scheduling: a caller that can take a step is not held back
\* for ever, and a call made to the device returns.
InitLive ==
    /\ node_def \in BatchedNodeDefs
    /\ env \in Envs
    /\ env.ninfer >= 1
    /\ ~env.unlimited_threads
    /\ \E sizes \in [Callers -> RuntimeDims] :
         /\ \A i \in Callers \ {1} :
               sizes[i] \in {sizes[1], node_def.input_k_dim0[1]}
         /\ input_tensors = [i \in Callers |-> [idx \in InputIdx |-> sizes[i]]]
    /\ faulty = {}
    /\ InitModel
    /\ inv = [i \in Callers |-> InvInit]

SpecLive == InitLive /\ [][Next]_vars /\ WF_vars(Next)

(***************************************************************************)
(* What a call of compute has done so far, read off its log.               *)
(***************************************************************************)
PostOps == {"post_infer", "post_infer_post"}
SetupInferOps == {"setup_infer", "setup_infer_post"}
WaitOps == {"wait_infer", "infer_wait"}
LockedPcs ==
    {"start", "fill_setup", "fill_acquire", "fill_setup_infer", "fill_post",
     "steady_setup", "steady_setup_infer", "steady_wait", "steady_post",
     "steady_retire", "confirm_assert", "confirm_wait"}
SteadyPcs ==
    {"steady_setup", "steady_setup_infer", "steady_wait", "steady_post",
     "steady_retire"}
DrainPcs == {"drain_wait", "drain_release", "drain_retire"}

\* positions of the log holding a call of one of ops
CallsOf(r, ops) == {k \in 1..Len(r.log) : r.log[k].op \in ops}
NumCalls(r, ops) == Cardinality(CallsOf(r, ops))

\* the sub-batches of the calls of ops, in the order of the calls
RECURSIVE BidxFrom(_, _, _)
BidxFrom(log, ops, k) ==
    IF k > Len(log) THEN <<>>
    ELSE IF log[k].op \in ops THEN <<log[k].bidx>> \o BidxFrom(log, ops, k + 1)
    ELSE BidxFrom(log, ops, k + 1)
BidxOf(r, ops) == BidxFrom(r.log, ops, 1)

\* requests posted to the device and not yet waited on
InFlight(r) == NumCalls(r, PostOps) - NumCalls(r, WaitOps)

\* s = <<0, 1, ..., Len(s) - 1>>
CountsUp(s) == \A k \in 1..Len(s) : s[k] = k - 1

Dynamic(i) == inv[i].use_dynamic_batch_size
Succeeded(i) == inv[i].pc = "done" /\ inv[i].status = "OK"

(***************************************************************************)
(* Claims.                                                                 *)
(***************************************************************************)
\* the least n with n * h >= r
CeilDiv(r, h) == CHOOSE n \in 0..r : n * h >= r /\ \A m \in 0..(n - 1) : m * h < r

\* C1: for every runtime batch size R > 0 and hardware batch size H > 0 with
\* R # H, compute plans ceil(R/H) sub-batches and a padded total of that many
\* times H.
C1_SubBatchCount ==
    \A i \in Callers :
        LET r == inv[i] IN
        (Dynamic(i) /\ r.allocated /\ r.batch_size > 0 /\ r.k_batch_size > 0
            /\ r.batch_size # r.k_batch_size)
        => /\ r.num_batches = CeilDiv(r.batch_size, r.k_batch_size)
           /\ r.pad_batch_size = r.num_batches * r.k_batch_size

\* a batch of 3 on a hardware batch of 2 is planned as 2 sub-batches, 4 rows
C1_Witness ==
    \E i \in Callers :
        /\ Dynamic(i) /\ inv[i].allocated
        /\ inv[i].batch_size = 3 /\ inv[i].k_batch_size = 2
        /\ inv[i].num_batches = 2 /\ inv[i].pad_batch_size = 4

Rows(slice) == slice.start..(slice.limit - 1)

\* C2: on the dynamic-batch path the destination slice of sub-batch b of a
\* batched output is rows [b*H, min(b*H+H, R)); when the call has succeeded
\* the slices of b = 0..num_batches-1 are pairwise disjoint and their union
\* is exactly rows [0, R) of the allocated output.
C2_OutputSlicesPartition ==
    \A i \in Callers : \A idx \in OutputIdx :
        LET r == inv[i]
            H == r.k_batch_size
            R == r.batch_size
            out == r.batches_sliced_outputs
        IN  (Dynamic(i) /\ r.is_batch_output_tensors[idx])
            => /\ \A k \in 1..Len(out) :
                     /\ out[k][idx].start = (k - 1) * H
                     /\ out[k][idx].limit = Min((k - 1) * H + H, R)
                     /\ Rows(out[k][idx]) \subseteq 0..(r.output_rows[idx] - 1)
               /\ Succeeded(i)
                    => /\ Len(out) = r.num_batches
                       /\ r.output_rows[idx] = R
                       /\ UNION {Rows(out[k][idx]) : k \in 1..Len(out)} = 0..(R - 1)
                       /\ \A k1 \in 1..Len(out) : \A k2 \in 1..Len(out) :
                            k1 # k2 => Rows(out[k1][idx]) \cap Rows(out[k2][idx]) = {}

\* a call has succeeded whose ragged last slice was built in the Steady loop
C2_Witness ==
    \E i \in Callers : \E idx \in OutputIdx :
        /\ Dynamic(i) /\ Succeeded(i) /\ inv[i].is_batch_output_tensors[idx]
        /\ inv[i].window_size < inv[i].num_batches
        /\ inv[i].batch_size < inv[i].pad_batch_size

\* the requests compute has handed to the device
RequestOps == PostOps \cup {"infer", "infer_with_profiling"}
DynamicPcs ==
    LockedPcs \cup DrainPcs \cup {"slice", "profile", "lock"}

\* C3: if the runtime batch size of the batch-axis-0 inputs equals the
\* hardware batch size, compute takes the single-shot path: nothing is
\* sliced or padded, no tensor is flagged as carrying a batch dimension, and
\* exactly one request is issued.
C3_EqualBatchBypasses ==
    \A i \in Callers :
        LET r == inv[i] IN
        (r.batch_size # UNINIT_BATCH_SIZE /\ r.batch_size = r.k_batch_size)
        => /\ ~r.use_dynamic_batch_size
           /\ r.pc \notin DynamicPcs
           /\ \A idx \in InputIdx : ~r.is_batch_input_tensors[idx]
           /\ \A idx \in OutputIdx : ~r.is_batch_output_tensors[idx]
           /\ r.batches_neuron_input_tensors = <<>>
           /\ r.batches_sliced_outputs = <<>>
           /\ NumCalls(r, RequestOps) <= 1
           /\ Succeeded(i) => NumCalls(r, RequestOps) = 1

\* a call with R = H has succeeded
C3_Witness ==
    \E i \in Callers :
        /\ inv[i].batch_size # UNINIT_BATCH_SIZE
        /\ inv[i].batch_size = inv[i].k_batch_size
        /\ Succeeded(i)
        /\ NumCalls(inv[i], {"infer"}) = 1

\* C4: within one invocation the number of requests posted and not yet
\* waited on never exceeds window_size.
C4_InFlightBounded ==
    \A i \in Callers : Dynamic(i) => InFlight(inv[i]) <= inv[i].window_size

\* a full window of two requests is in flight in the Steady phase
C4_Witness ==
    \E i \in Callers :
        /\ inv[i].pc \in SteadyPcs
        /\ inv[i].window_size = 2
        /\ InFlight(inv[i]) = 2

\* requests enqueued by the Steady loop, and requests popped so far
SteadyEnqueued(r) ==
    IF Len(r.batches_sliced_outputs) > r.window_size
      THEN Len(r.batches_sliced_outputs) - r.window_size ELSE 0
Popped(r) == NumCalls(r, {"pop"})

\* C5 as claimed: the length of scoped_io_queue is at most window_size at
\* all times, and outside the initial fill a request is enqueued only after
\* at least as many requests have been popped.
C5_QueueWithinWindow ==
    \A i \in Callers :
        (Dynamic(i) /\ inv[i].window_size > 0)
        => /\ Len(inv[i].scoped_io_queue) <= inv[i].window_size
           /\ SteadyEnqueued(inv[i]) <= Popped(inv[i])

\* C5 amended: the length of scoped_io_queue is at most window_size + 1, and
\* it exceeds window_size only while a request enqueued by the Steady loop
\* awaits the pop of the request it replaces: the k-th Steady request is
\* enqueued after k - 1 pops, one pop short of the number of enqueues.
C5_QueueWithinWindowPlusOne ==
    \A i \in Callers :
        LET r == inv[i] IN
        (Dynamic(i) /\ r.window_size > 0)
        => /\ Len(r.scoped_io_queue) <= r.window_size + 1
           /\ SteadyEnqueued(r) <= Popped(r) + 1
           /\ Len(r.scoped_io_queue) = r.window_size + 1
                => SteadyEnqueued(r) = Popped(r) + 1
           /\ Len(r.scoped_io_queue) = Len(r.batches_sliced_outputs) - Popped(r)

\* the Steady loop has enqueued its second request before the second pop
C5_Witness ==
    \E i \in Callers :
        /\ inv[i].pc = "steady_wait"
        /\ inv[i].window_size = 2
        /\ Len(inv[i].scoped_io_queue) = 3
        /\ Popped(inv[i]) = 1

\* C6: requests are waited on and retired in the order they were
\* submitted: the retired indices are 0, 1, 2, ... without gap or repeat,
\* each retired request was waited on, each waited request was posted, and a
\* successful run retires all num_batches of them.
C6_RetiredInSubmissionOrder ==
    \A i \in Callers :
        LET r == inv[i]
            posted == BidxOf(r, PostOps)
            waited == BidxOf(r, WaitOps)
            retired == BidxOf(r, {"pop"})
        IN  Dynamic(i)
            => /\ CountsUp(posted) /\ CountsUp(waited) /\ CountsUp(retired)
               /\ Len(retired) <= Len(waited)
               /\ Len(waited) <= Len(posted)
               /\ Succeeded(i) => Len(retired) = r.num_batches

\* a run of four sub-batches through a window of two has succeeded: two
\* were retired by the Steady loop and two by Draining
C6_Witness ==
    \E i \in Callers :
        /\ Dynamic(i) /\ Succeeded(i)
        /\ inv[i].num_batches = 4 /\ inv[i].window_size = 2
        /\ BidxOf(inv[i], {"pop"}) = <<0, 1, 2, 3>>

\* C7 as claimed: over a full invocation with the semaphore enabled the
\* calls of acquire_sem and of release_sem are equal in number, one of each
\* per sub-batch request submitted.
C7_OneTokenPerRequest ==
    \A i \in Callers :
        (Dynamic(i) /\ Succeeded(i) /\ infer_sem_)
        => /\ NumCalls(inv[i], {"acquire_sem"}) = NumCalls(inv[i], {"release_sem"})
           /\ NumCalls(inv[i], {"acquire_sem"}) = NumCalls(inv[i], PostOps)

\* C7 amended: over a full successful invocation with the semaphore enabled
\* the calls of acquire_sem and of release_sem are equal in number, one of
\* each per request of the window (window_size, not num_batches: a Steady
\* request takes over the unit of the request it replaces); the units held
\* are the acquires less the releases, and when compute has returned, with
\* OK or with an error, it holds none and the semaphore is full again.
C7_OneTokenPerWindowSlot ==
    \A i \in Callers :
        LET r == inv[i] IN
        (Dynamic(i) /\ infer_sem_)
        => /\ Succeeded(i)
                => /\ NumCalls(r, {"acquire_sem"}) = r.window_size
                   /\ NumCalls(r, {"release_sem"}) = r.window_size
           /\ r.pc # "done"
                => r.sem_res_queue =
                       NumCalls(r, {"acquire_sem"}) - NumCalls(r, {"release_sem"})
           /\ r.pc = "done" => r.sem_res_queue = 0
           /\ (\A j \in Callers : inv[j].pc \in {"done", "absent"})
                => sem_free = max_num_infers_

\* a run of three sub-batches through a window of two has succeeded with
\* the semaphore enabled
C7_Witness ==
    \E i \in Callers :
        /\ Dynamic(i) /\ Succeeded(i) /\ infer_sem_
        /\ inv[i].num_batches = 3 /\ inv[i].window_size = 2
        /\ NumCalls(inv[i], {"acquire_sem"}) = 2

\* a run that returned an error while it held units
C7_FailureWitness ==
    \E i \in Callers :
        /\ Dynamic(i) /\ infer_sem_
        /\ inv[i].pc = "done" /\ inv[i].status = "ERR"
        /\ NumCalls(inv[i], {"acquire_sem"}) = 2
        /\ NumCalls(inv[i], {"release_sem"}) = 0

\* units of the semaphore held by all callers, and requests all callers
\* have posted to the device and not waited on
RECURSIVE SumOver(_, _)
SumOver(f, S) ==
    IF S = {} THEN 0
    ELSE LET i == CHOOSE i \in S : TRUE IN f[i] + SumOver(f, S \ {i})
TokensHeld == SumOver([i \in Callers |-> inv[i].sem_res_queue], Callers)
TotalInFlight == SumOver([i \in Callers |-> InFlight(inv[i])], Callers)

\* C8: with several invocations running concurrently against the same
\* device and the semaphore enabled with capacity C = max_num_infers_, in
\* every reachable state the units held by all invocations are at most C,
\* each invocation holds at least as many units as it has requests posted
\* and not waited on, and so the requests in flight are at most C in total.
C8_SharedCapacity ==
    infer_sem_
    => /\ TokensHeld <= max_num_infers_
       /\ TokensHeld + sem_free = max_num_infers_
       /\ \A i \in Callers : inv[i].sem_res_queue >= InFlight(inv[i])
       /\ TotalInFlight <= max_num_infers_

\* C9 as claimed: the device lock is not held by an invocation in any state
\* of its Steady phase nor of its Draining phase.
C9_LockOnlyWhileFilling ==
    \A i \in Callers :
        inv[i].pc \in SteadyPcs \cup DrainPcs => mutex_eg_ # i

\* C9 amended: an invocation holds the device lock from acquire_mutex
\* through start of the program, the Filling loop, the whole Steady loop
\* (also while blocked in wait_infer) and the confirmation of the posted
\* requests, and in no other state: it holds none while Draining and none
\* once it has returned, with OK or with an error.
C9_LockThroughSteady ==
    \A i \in Callers : mutex_eg_ = i <=> inv[i].pc \in LockedPcs

\* one caller waits in its Steady loop holding the lock while the other is
\* blocked at acquire_mutex, and one caller drains while the other has the
\* lock
C9_Witness ==
    \E i \in Callers : \E j \in Callers \ {i} :
        /\ inv[i].pc = "steady_wait" /\ mutex_eg_ = i
        /\ inv[j].pc = "lock"
C9_DrainWitness ==
    \E i \in Callers : \E j \in Callers \ {i} :
        /\ inv[i].pc \in DrainPcs
        /\ mutex_eg_ = j

\* positions of the log before k holding a call of ops for sub-batch b
Before(r, k, ops, b) ==
    {j \in 1..(k - 1) : r.log[j].op \in ops /\ r.log[j].bidx = b}

\* C10 as claimed: in each Steady iteration the submission of request i to
\* the device (post_infer or post_infer_post) is issued before the wait on
\* request i - window_size begins.
C10_PostBeforeWait ==
    \A i \in Callers :
        LET r == inv[i] IN
        Dynamic(i)
        => \A k \in CallsOf(r, {"wait_infer"}) :
               Before(r, k, PostOps, r.log[k].bidx + r.window_size) # {}

\* C10 amended: in each Steady iteration for sub-batch i >= window_size the
\* request i is set up (setup_infer or setup_infer_post) before the wait on
\* request i - window_size begins, and it is posted to the device
\* (post_infer or post_infer_post) only after that wait has returned, before
\* request i - window_size is finished and popped.
C10_SetupBeforeWaitBeforePost ==
    \A i \in Callers :
        LET r == inv[i] IN
        Dynamic(i)
        => /\ \A k \in CallsOf(r, {"wait_infer"}) :
                LET b == r.log[k].bidx + r.window_size
                IN  /\ Before(r, k, SetupInferOps, b) # {}
                    /\ Before(r, k, PostOps, b) = {}
           /\ \A k \in CallsOf(r, PostOps) :
                LET b == r.log[k].bidx
                IN  b >= r.window_size
                    => /\ Before(r, k, {"wait_infer"}, b - r.window_size) # {}
                       /\ Before(r, k, {"pop"}, b - r.window_size) = {}

\* the Steady loop has posted a request of index window_size or more
C10_Witness ==
    \E i \in Callers :
        /\ Dynamic(i)
        /\ inv[i].window_size = 2
        /\ \E k \in CallsOf(inv[i], PostOps) : inv[i].log[k].bidx = 3

\* the name, type and shape lists of the inputs, or those of the outputs,
\* differ in length
ListsDiffer(sizes) ==
    \/ sizes.input_names # sizes.input_dtypes
    \/ sizes.input_names # sizes.input_shapes
    \/ sizes.output_names # sizes.output_dtypes
    \/ sizes.output_names # sizes.output_shapes

\* nothing was allocated and no call was made on the device or the model
Untouched(i) ==
    /\ ~inv[i].allocated
    /\ inv[i].log = <<>>
    /\ inv[i].sem_res_queue = 0
    /\ mutex_eg_ # i
    /\ inv[i].pc \in {"absent", "idle", "done"}

\* C11 as claimed: if the name, type and shape lists of the inputs (or of
\* the outputs) differ in length, compute fails with FailedPrecondition,
\* with no output allocated and no device interaction.
C11_MismatchIsFailedPrecondition ==
    \A i \in Callers :
        (ListsDiffer(node_def.sizes) /\ inv[i].pc = "done")
        => inv[i].status = "FailedPrecondition" /\ Untouched(i)

\* C11 amended: if the lists differ in length, compute fails with no output
\* allocated and no device interaction: with FailedPrecondition when the
\* caller passes as many input tensors as there are input names, and with
\* InvalidArgument (the check of line 167, made first) when it does not.
C11_MismatchFailsUntouched ==
    \A i \in Callers :
        ListsDiffer(node_def.sizes)
        => /\ Untouched(i)
           /\ ~neuron_device_
           /\ inv[i].pc = "done"
                => inv[i].status =
                       IF NumInputs = node_def.sizes.input_names
                         THEN "FailedPrecondition" ELSE "InvalidArgument"

\* compute has returned FailedPrecondition for output lists that differ
C11_Witness ==
    \E i \in Callers :
        /\ inv[i].pc = "done" /\ inv[i].status = "FailedPrecondition"
        /\ node_def.sizes.output_names # node_def.sizes.output_shapes
        /\ node_def.sizes.input_names = node_def.sizes.input_dtypes
        /\ node_def.sizes.input_names = node_def.sizes.input_shapes

\* the inputs that declare batch axis 0, and the first of them
BatchInputs == {idx \in InputIdx : node_def.input_batch_axis[idx] = 0}
FirstBatchInput == CHOOSE idx \in BatchInputs : \A other \in BatchInputs : idx <= other

\* the first input after FirstBatchInput that declares batch axis 0 with
\* another leading dimension, 0 if there is none
Offending(dims) ==
    LET off == {idx \in BatchInputs : dims[idx] # dims[FirstBatchInput]}
    IN  IF off = {} THEN 0
        ELSE CHOOSE idx \in off : \A other \in off : idx <= other

SubBatchRows(b, k_batch_size, batch_size) ==
    {row \in 0..(batch_size - 1) :
        b * k_batch_size <= row /\ row < (b + 1) * k_batch_size}

\* C13: the assignment of data to requests does not depend on the window
\* size: in every run, whatever window_size >= 1, the k-th request set up is
\* sub-batch k - 1, it reads the rows SubBatchRows of the batch inputs and
\* writes the same rows of the batch outputs, and a successful run has
\* posted and retired exactly the sub-batches 0 .. num_batches - 1, where
\* num_batches does not depend on the window either.
C13_DataIndependentOfWindow ==
    \A i \in Callers :
        LET r == inv[i] IN
        Dynamic(i)
        => /\ \A k \in 1..Len(r.requests) :
                LET q == r.requests[k]
                    rows == SubBatchRows(k - 1, r.k_batch_size, r.batch_size)
                IN  /\ q.bidx = k - 1
                    /\ Rows(q.sliced_inputs) = rows
                    /\ \A idx \in OutputIdx :
                         r.is_batch_output_tensors[idx]
                         => Rows(q.output_tensors[idx]) = rows
           /\ r.window_size >= 1 => Len(r.requests) <= r.num_batches
           /\ Succeeded(i)
                => /\ Len(r.requests) = CeilDiv(r.batch_size, r.k_batch_size)
                   /\ BidxOf(r, PostOps) = [k \in 1..r.num_batches |-> k - 1]
                   /\ BidxOf(r, {"pop"}) = [k \in 1..r.num_batches |-> k - 1]

\* runs of three sub-batches have succeeded with a window of one and with a
\* window of two
C13_Witness ==
    \E i \in Callers :
        /\ Dynamic(i) /\ Succeeded(i)
        /\ inv[i].num_batches = 3 /\ inv[i].window_size = 1
        /\ Len(inv[i].requests) = 3
C13_WideWitness ==
    \E i \in Callers :
        /\ Dynamic(i) /\ Succeeded(i)
        /\ inv[i].num_batches = 3 /\ inv[i].window_size = 2
        /\ Len(inv[i].requests) = 3

\* compute is past line 301, where it sizes the window
WindowSized(i) ==
    Dynamic(i) /\ inv[i].pc \in DynamicPcs \ {"slice"}

\* C14: in every dynamic-batch invocation window_size is
\* min(max(max_num_infers_, 1), num_batches), where max_num_infers_ is the
\* configured limit multiplied by the semaphore factor of the device, and
\* so 1 <= window_size <= num_batches.
C14_WindowFromConfiguredLimit ==
    \A i \in Callers :
        WindowSized(i)
        => /\ max_num_infers_ = ConfiguredInfers(env)
           /\ inv[i].window_size =
                  Min(IF ConfiguredInfers(env) > 1 THEN ConfiguredInfers(env) ELSE 1,
                      inv[i].num_batches)
           /\ 1 <= inv[i].window_size
           /\ inv[i].window_size <= inv[i].num_batches

\* the sub-batches of the last window, in order
LastWindow(r) ==
    [k \in 1..r.window_size |-> r.num_batches - r.window_size + k - 1]

\* s is the beginning of t
IsPrefix(s, t) ==
    Len(s) <= Len(t) /\ \A k \in 1..Len(s) : s[k] = t[k]

\* C15: exactly the sub-batches of index >= num_batches - window_size are
\* set up and posted through the posted variant and tracked in
\* need_wait_infer_post; at the end of the Steady loop the tracked requests
\* are the window_size requests of the last window, so the assertion on the
\* queue length never fails; and they are confirmed by wait_infer_post in
\* the order they were posted, all of them before the device lock is
\* released on the way to Draining.
C15_LastWindowPostedAndConfirmed ==
    \A i \in Callers :
        LET r == inv[i]
            first == r.num_batches - r.window_size
            confirmed == BidxOf(r, {"wait_infer_post"})
        IN  (Dynamic(i) /\ r.pc \in LockedPcs \cup DrainPcs \cup {"done"}
               /\ r.window_size >= 1)
            => /\ \A k \in CallsOf(r, {"setup_infer_post", "post_infer_post"}) :
                    r.log[k].bidx >= first
               /\ \A k \in CallsOf(r, {"setup_infer", "post_infer"}) :
                    r.log[k].bidx < first
               /\ r.pc \in LockedPcs \ {"start"}
                    => r.first_need_wait_infer_post_bidx = first
               /\ r.pc = "confirm_assert" => r.need_wait_infer_post = LastWindow(r)
               /\ r.failed_at # <<Call("assert_queue_length", -1)>>
               /\ IsPrefix(confirmed, LastWindow(r))
               /\ confirmed \o r.need_wait_infer_post
                    = BidxOf(r, {"post_infer_post"})
               /\ (r.pc \in DrainPcs \/ Succeeded(i))
                    => confirmed = LastWindow(r)
               /\ (confirmed # <<>> /\ confirmed # LastWindow(r) /\ r.pc # "done")
                    => mutex_eg_ = i

\* a run of three sub-batches through a window of two has confirmed its
\* two posted requests and drains
C15_Witness ==
    \E i \in Callers :
        /\ Dynamic(i) /\ inv[i].pc \in DrainPcs
        /\ inv[i].num_batches = 3 /\ inv[i].window_size = 2
        /\ BidxOf(inv[i], {"wait_infer_post"}) = <<1, 2>>
        /\ BidxOf(inv[i], {"post_infer"}) = <<0>>

\* C16: an ABORTED answer of the device at a call site after the outputs
\* were allocated is swallowed: the invocation goes on, it never returns
\* the ABORTED status.
C16_AbortedNeverReturned ==
    \A i \in Callers :
        inv[i].allocated => inv[i].status # "ABORTED"

\* C17: a device error other than ABORTED propagates at once: as soon as
\* the device has answered a call of the invocation with such an error,
\* compute has returned that error and the invocation is over: no setup,
\* post, wait or acquire follows the call that failed.
C17_ErrorsPropagate ==
    \A i \in Callers :
        LET r == inv[i] IN
        r.device_error # ""
        => /\ r.pc = "done"
           /\ r.status = r.device_error

\* the device has answered wait_infer in the Steady loop with an error and
\* compute has returned it, one request posted and not waited on
C17_Witness ==
    \E i \in Callers :
        /\ inv[i].pc = "done" /\ inv[i].status = "ERR"
        /\ inv[i].device_error = "ERR"
        /\ inv[i].failed_at = <<Call("wait_infer", 0)>>

\* C18: when a step of the pipeline fails after requests were posted to
\* the device, the invocation still waits for every request it has posted
\* before it returns: at the moment compute returns an error no posted
\* request is left un-waited.
C18_PostedRequestsWaitedOut ==
    \A i \in Callers :
        (Dynamic(i) /\ inv[i].pc = "done" /\ inv[i].status # "OK")
        => InFlight(inv[i]) = 0

\* the last n elements of s
Suffix(s, n) == [k \in 1..n |-> s[Len(s) - n + k]]

\* C19: after the last submission of a dynamic-batch run, when Draining
\* begins, scoped_io_queue holds exactly the window_size requests of the
\* last window; Draining waits on each of them once, oldest first, calls
\* release_sem once per completion, which with the semaphore enabled gives
\* one unit back, and finishes and pops it; the loop never meets an empty
\* queue before wait_bidx reaches window_size, and a successful run ends
\* with the queue empty and nothing held.
C19_DrainingRetiresLastWindow ==
    \A i \in Callers :
        LET r == inv[i]
            drained == BidxOf(r, {"infer_wait"})
            released == NumCalls(r, {"release_sem"})
        IN  (Dynamic(i) /\ r.window_size >= 1)
            => /\ r.pc \in DrainPcs
                    => /\ r.wait_bidx < r.window_size
                       /\ r.scoped_io_queue
                            = Suffix(LastWindow(r), r.window_size - r.wait_bidx)
                       /\ Len(drained) = r.wait_bidx
                                         + (IF r.pc = "drain_wait" THEN 0 ELSE 1)
                       /\ released = r.wait_bidx
                                     + (IF r.pc = "drain_retire" THEN 1 ELSE 0)
                       /\ infer_sem_ => r.sem_res_queue = r.window_size - released
               /\ IsPrefix(drained, LastWindow(r))
               /\ r.pc \notin DrainPcs \cup {"done"} => drained = <<>>
               /\ Succeeded(i)
                    => /\ r.scoped_io_queue = <<>>
                       /\ r.wait_bidx = r.window_size
                       /\ drained = LastWindow(r)
                       /\ released = r.window_size
                       /\ r.sem_res_queue = 0

\* a run of three sub-batches through a window of two, with the semaphore
\* enabled, has drained its two last requests and succeeded
C19_Witness ==
    \E i \in Callers :
        /\ Dynamic(i) /\ Succeeded(i) /\ infer_sem_
        /\ inv[i].num_batches = 3 /\ inv[i].window_size = 2
        /\ BidxOf(inv[i], {"infer_wait"}) = <<1, 2>>
        /\ NumCalls(inv[i], {"release_sem"}) = 2

\* what hands a request, or its tensors, to the device
SubmitOps ==
    {"setup_scoped_runtime_io", "infer_with_profiling", "infer"}
        \cup SetupInferOps \cup PostOps

\* the validations of sub-batch b that have passed
ChecksOf(r, b) ==
    {k \in CallsOf(r, {"check_input_tensors"}) : r.log[k].bidx = b}

\* the tensors of caller i's sub-batches have the declared sizes
InputsValid(i) ==
    \A idx \in InputIdx :
        SlicedInputRows(inv[i])[idx] = node_def.input_k_dim0[idx]

\* C20 as claimed: check_input_tensors is run once for each sub-batch.
C20_ValidatedOncePerSubBatch ==
    \A i \in Callers :
        Dynamic(i)
        => \A b \in 0..(MaxBatch - 1) : Cardinality(ChecksOf(inv[i], b)) <= 1

\* C20 amended: check_input_tensors is run once for each submission of a
\* sub-batch, on the tensors of that submission and right before its
\* request is set up: once per sub-batch in Filling and Steady, and once
\* more for sub-batch 0 ahead of the extra inference when the profiler is
\* enabled.  Nothing of a sub-batch is set up or posted before its
\* validation has passed, and when the validation fails compute returns
\* Internal with nothing of that sub-batch handed to the device.
C20_ValidatedBeforeEachSubmission ==
    \A i \in Callers :
        LET r == inv[i]
        IN  Dynamic(i)
            => /\ \A k \in CallsOf(r, {"setup_scoped_runtime_io"}) :
                    k > 1 /\ r.log[k - 1] = Call("check_input_tensors", r.log[k].bidx)
               /\ \A k \in CallsOf(r, SubmitOps) :
                    Before(r, k, {"check_input_tensors"}, r.log[k].bidx) # {}
               /\ \A b \in 0..(MaxBatch - 1) :
                    /\ Cardinality(ChecksOf(r, b))
                         <= 1 + (IF b = 0 /\ profile_enabled_ THEN 1 ELSE 0)
                    /\ Cardinality({k \in ChecksOf(r, b) :
                                      Before(r, k, {"acquire_mutex"}, -1) # {}}) <= 1
                    /\ Succeeded(i) /\ b < r.num_batches
                         => Cardinality(ChecksOf(r, b))
                              = 1 + (IF b = 0 /\ profile_enabled_ THEN 1 ELSE 0)
               /\ r.failed_at # <<>> /\ r.failed_at[1].op = "check_input_tensors"
                    => /\ r.pc = "done" /\ r.status = "Internal"
                       /\ ~InputsValid(i)
                       /\ \A k \in CallsOf(r, SubmitOps) :
                            r.log[k].bidx # r.failed_at[1].bidx
               /\ ~InputsValid(i) => CallsOf(r, SubmitOps) = {}

\* with the profiler enabled a run of three sub-batches has validated
\* sub-batch 0 twice and the others once, and succeeded
C20_Witness ==
    \E i \in Callers :
        /\ Dynamic(i) /\ Succeeded(i) /\ profile_enabled_
        /\ inv[i].num_batches = 3
        /\ BidxOf(inv[i], {"check_input_tensors"}) = <<0, 0, 1, 2>>

\* a second batch input declared with another leading dimension passes the
\* planner and fails the validation of sub-batch 0
C20_FailureWitness ==
    \E i \in Callers :
        /\ Dynamic(i) /\ inv[i].pc = "done" /\ inv[i].status = "Internal"
        /\ inv[i].failed_at = <<Call("check_input_tensors", 0)>>
        /\ ~InputsValid(i)

\* the input slices of caller i have been built (lines 268-295 are passed)
Sliced(i) == Dynamic(i) /\ inv[i].batches_neuron_input_tensors # <<>>

\* C21 as claimed: a padded copy is made for sub-batch b only if b is the
\* last sub-batch and R is not a multiple of H.
C21_CopyOnlyWhenRagged ==
    \A i \in Callers :
        Sliced(i)
        => \A b \in 1..inv[i].num_batches :
              inv[i].batches_neuron_input_tensors[b].copied
              => /\ b = inv[i].num_batches
                 /\ inv[i].batch_size % inv[i].k_batch_size # 0

\* C21 amended: the input of the last sub-batch is always a fresh buffer of
\* H rows, also when R is a multiple of H: its first R - b*H rows are rows
\* [b*H, R) of the caller's tensor and the rows after them, none when R is a
\* multiple of H, are zero.  Every other sub-batch is a view of rows
\* [b*H, b*H + H) with no copy.
C21_LastSubBatchAlwaysCopied ==
    \A i \in Callers :
        LET r == inv[i]
            H == r.k_batch_size
            R == r.batch_size
        IN  Sliced(i)
            => /\ Len(r.batches_neuron_input_tensors) = r.num_batches
               /\ \A b \in 0..(r.num_batches - 1) :
                    LET s == r.batches_neuron_input_tensors[b + 1]
                    IN  /\ s.copied <=> b = r.num_batches - 1
                        /\ s.start = b * H
                        /\ ~s.copied => s.limit = b * H + H /\ s.zero_from = H
                        /\ s.copied
                             => /\ s.limit = R
                                /\ s.zero_from = R - b * H
                                /\ s.zero_from \in 1..H
                                /\ s.zero_from = H <=> R % H = 0

\* four rows through a hardware batch of two: the last of the two sub-batches
\* is a copy without a zero row
C21_Witness ==
    \E i \in Callers :
        /\ Sliced(i)
        /\ inv[i].batch_size = 4 /\ inv[i].k_batch_size = 2
        /\ inv[i].batches_neuron_input_tensors[2]
             = [copied |-> TRUE, start |-> 2, limit |-> 4, zero_from |-> 2]

\* three rows through a hardware batch of two: the last sub-batch is a copy
\* of one row followed by one zero row
C21_RaggedWitness ==
    \E i \in Callers :
        /\ Sliced(i)
        /\ inv[i].batch_size = 3 /\ inv[i].k_batch_size = 2
        /\ inv[i].batches_neuron_input_tensors[2]
             = [copied |-> TRUE, start |-> 2, limit |-> 3, zero_from |-> 1]

\* the calls of ops for sub-batch b made in the pipeline (after acquire_mutex,
\* so not by the extra profiling inference) before position k of the log
PipelineBefore(r, k, ops, b) ==
    {j \in Before(r, k, ops, b) : Before(r, j, {"acquire_mutex"}, -1) # {}}

\* C22 as claimed: a token is acquired before every request is posted, and
\* release_sem is called for a request only after its I/O handle is finished.
C22_TokenHeldUntilFinished ==
    \A i \in Callers :
        LET r == inv[i] IN
        (Dynamic(i) /\ infer_sem_)
        => /\ \A k \in CallsOf(r, PostOps) :
                Before(r, k, {"acquire_sem"}, r.log[k].bidx) # {}
           /\ \A k \in CallsOf(r, {"release_sem"}) :
                PipelineBefore(r, k, {"finish"}, r.log[k].bidx) # {}

\* C22 amended: with the semaphore enabled a token is acquired before each
\* of the first window_size requests is posted; a request posted in Steady
\* acquires none and is posted after the wait on the request window_size
\* before it.  In Draining release_sem is called for a request after
\* infer_wait has returned its completion and before its I/O handle is
\* finished; the tokens held are those acquired and not yet released, and
\* none is held once compute has returned.
C22_TokenReleasedAfterWaitBeforeFinish ==
    \A i \in Callers :
        LET r == inv[i]
            W == r.window_size
        IN  Dynamic(i)
            => /\ \A k \in CallsOf(r, PostOps) :
                    LET b == r.log[k].bidx
                    IN  IF b < W
                          THEN infer_sem_ => Before(r, k, {"acquire_sem"}, b) # {}
                          ELSE /\ CallsOf(r, {"acquire_sem"}) \cap
                                    {j \in 1..Len(r.log) : r.log[j].bidx = b} = {}
                               /\ Before(r, k, {"wait_infer"}, b - W) # {}
               /\ \A k \in CallsOf(r, {"release_sem"}) :
                    LET b == r.log[k].bidx
                    IN  /\ Before(r, k, {"infer_wait"}, b) # {}
                        /\ PipelineBefore(r, k, {"finish"}, b) = {}
               /\ \A k \in CallsOf(r, {"finish"}) :
                    LET b == r.log[k].bidx
                    IN  Before(r, k, {"infer_wait"}, b) # {}
                        => Before(r, k, {"release_sem"}, b) # {}
               /\ r.pc # "done" /\ infer_sem_
                    => r.sem_res_queue = NumCalls(r, {"acquire_sem"})
                                         - NumCalls(r, {"release_sem"})
               /\ r.pc = "done" => r.sem_res_queue = 0

\* in Draining the token of request 1 has been released and its I/O handle
\* is not finished yet
C22_Witness ==
    \E i \in Callers :
        /\ Dynamic(i) /\ infer_sem_
        /\ inv[i].pc = "drain_retire"
        /\ inv[i].num_batches = 3 /\ inv[i].window_size = 2
        /\ Before(inv[i], Len(inv[i].log) + 1, {"release_sem"}, 1) # {}
        /\ PipelineBefore(inv[i], Len(inv[i].log) + 1, {"finish"}, 1) = {}

\* C23: whenever the dynamic-batch path is taken the hardware batch size is
\* above 0 before the number of sub-batches is computed; a batch-axis-0
\* tensor declared with a hardware batch size that is not above 0 makes
\* compute fail with an Internal error instead of reaching the division.
C23_HardwareBatchPositive ==
    \A i \in Callers :
        /\ Dynamic(i) /\ inv[i].pc = "allocate" => inv[i].k_batch_size > 0
        /\ Dynamic(i) /\ inv[i].k_batch_size <= 0 /\ inv[i].pc = "done"
             => inv[i].status \in {"Internal", "InvalidArgument"}

\* the model is Ready: device bound, executable loaded, max_num_infers_ and
\* the semaphore configured
Ready ==
    /\ neuron_device_
    /\ nn_loaded_
    /\ max_num_infers_ = ConfiguredInfers(env)
    /\ infer_sem_ <=> ~env.unlimited_threads

\* caller i is past its call of initialize and compute has gone on
PastInitialize(i) ==
    inv[i].pc \notin {"absent", "idle", "plan", "allocate", "slice", "initialize", "done"}

\* C24: initialize returns success without doing work only if the model is
\* Ready; an initialize that failed part-way leaves the model Uninitialized.
\* So whenever the test of line 114 would take the early return the model is
\* Ready, and a caller whose own calls never fail goes on past initialize
\* only with the model Ready.
C24_SuccessOnlyWhenReady ==
    /\ neuron_device_ => Ready
    /\ \A i \in Callers \ faulty : PastInitialize(i) => Ready

\* the calls of ops for sub-batch b
CallsFor(r, ops, b) == {k \in CallsOf(r, ops) : r.log[k].bidx = b}

\* no element occurs twice in s; the elements of s
NoRepeat(s) == \A j \in 1..Len(s) : \A k \in (j + 1)..Len(s) : s[j] # s[k]
Range(s) == {s[k] : k \in 1..Len(s)}

\* C25: every sub-batch request is waited on once, by the variant that
\* matches its submission.  A request below num_batches - window_size is
\* posted by post_infer and completed by wait_infer in the Steady loop; a
\* request from num_batches - window_size on is posted by post_infer_post,
\* confirmed by wait_infer_post and then completed by infer_wait in
\* Draining.  No request is completed by the other variant or waited twice,
\* and on a successful run none is left unwaited.
C25_WaitMatchesSubmission ==
    \A i \in Callers :
        LET r == inv[i]
            first == r.num_batches - r.window_size
            posts == BidxOf(r, PostOps)
            waits == BidxOf(r, {"wait_infer", "infer_wait"})
            confirms == BidxOf(r, {"wait_infer_post"})
        IN  (Dynamic(i) /\ r.window_size >= 1)
            => /\ \A k \in CallsOf(r, {"post_infer"}) : r.log[k].bidx < first
               /\ \A k \in CallsOf(r, {"post_infer_post"}) : r.log[k].bidx >= first
               /\ \A k \in CallsOf(r, {"wait_infer"}) :
                    LET b == r.log[k].bidx
                    IN  /\ Before(r, k, {"post_infer"}, b) # {}
                        /\ CallsFor(r, {"post_infer_post", "wait_infer_post",
                                        "infer_wait"}, b) = {}
               /\ \A k \in CallsOf(r, {"wait_infer_post"}) :
                    Before(r, k, {"post_infer_post"}, r.log[k].bidx) # {}
               /\ \A k \in CallsOf(r, {"infer_wait"}) :
                    LET b == r.log[k].bidx
                    IN  /\ Before(r, k, {"post_infer_post"}, b) # {}
                        /\ Before(r, k, {"wait_infer_post"}, b) # {}
                        /\ CallsFor(r, {"post_infer", "wait_infer"}, b) = {}
               /\ NoRepeat(posts) /\ NoRepeat(waits) /\ NoRepeat(confirms)
               /\ Succeeded(i)
                    => /\ Range(posts) = 0..(r.num_batches - 1)
                       /\ Range(waits) = 0..(r.num_batches - 1)

\* three sub-batches through a window of one: requests 0 and 1 were waited by
\* wait_infer in Steady, request 2 confirmed and then waited in Draining
C25_Witness ==
    \E i \in Callers :
        /\ Dynamic(i) /\ Succeeded(i)
        /\ inv[i].num_batches = 3 /\ inv[i].window_size = 1
        /\ BidxOf(inv[i], {"post_infer"}) = <<0, 1>>
        /\ BidxOf(inv[i], {"wait_infer"}) = <<0, 1>>
        /\ BidxOf(inv[i], {"post_infer_post"}) = <<2>>
        /\ BidxOf(inv[i], {"wait_infer_post"}) = <<2>>
        /\ BidxOf(inv[i], {"infer_wait"}) = <<2>>

\* the release_sem call at position k of the log has an acquire_sem call of
\* the same invocation before it that no earlier release_sem has used up
Matched(r, k) ==
    Cardinality({j \in CallsOf(r, {"acquire_sem"}) : j < k})
        > Cardinality({j \in CallsOf(r, {"release_sem"}) : j < k})

\* C27 as claimed: every release_sem call is matched by an earlier acquire_sem
\* call not yet released, and with the semaphore disabled the invocation
\* calls neither acquire_sem nor release_sem.
C27_NoSemaphoreCallsWhenDisabled ==
    \A i \in Callers :
        LET r == inv[i] IN
        Dynamic(i)
        => /\ \A k \in CallsOf(r, {"release_sem"}) : Matched(r, k)
           /\ ~infer_sem_ => CallsOf(r, {"acquire_sem", "release_sem"}) = {}

\* C27 amended: release_sem is called once for every request drained,
\* whether or not the semaphore is enabled.  With the semaphore enabled each
\* of these calls is matched by an earlier acquire_sem call of the same
\* invocation that is not yet released.  With the semaphore disabled the
\* invocation never calls acquire_sem, holds nothing, and its release_sem
\* calls find the reservation queue empty and give nothing back.
C27_ReleaseMatchedWhenEnabled ==
    \A i \in Callers :
        LET r == inv[i] IN
        Dynamic(i)
        => /\ NumCalls(r, {"release_sem"}) = NumCalls(r, {"infer_wait"})
                \/ (r.pc = "drain_release"
                    /\ NumCalls(r, {"release_sem"}) + 1 = NumCalls(r, {"infer_wait"}))
                \/ (r.pc = "done" /\ r.failed_at # <<>>
                    /\ r.failed_at[1].op = "release_sem"
                    /\ NumCalls(r, {"release_sem"}) + 1 = NumCalls(r, {"infer_wait"}))
           /\ infer_sem_ => \A k \in CallsOf(r, {"release_sem"}) : Matched(r, k)
           /\ ~infer_sem_ => /\ CallsOf(r, {"acquire_sem"}) = {}
                             /\ r.sem_res_queue = 0
                             /\ sem_free = 0
           /\ r.sem_res_queue >= 0
           /\ sem_free >= 0

\* with the semaphore disabled a run through a window of two has called
\* release_sem twice and acquire_sem never
C27_Witness ==
    \E i \in Callers :
        /\ Dynamic(i) /\ Succeeded(i) /\ ~infer_sem_ /\ nn_loaded_
        /\ env.unlimited_threads
        /\ inv[i].window_size = 2
        /\ NumCalls(inv[i], {"release_sem"}) = 2
        /\ NumCalls(inv[i], {"acquire_sem"}) = 0

\* caller i waits in acquire_sem, holding the device lock
BlockedInAcquire(i) ==
    /\ inv[i].pc = "fill_acquire"
    /\ mutex_eg_ = i
    /\ infer_sem_ /\ ~SemCanAcquire(sem_free)

AllDone == \A i \in Callers : inv[i].pc = "done"

\* caller j holds a token and needs neither the device lock nor another
\* token for its next steps, which give the token back
ReleasesUnaided(j) ==
    /\ inv[j].sem_res_queue > 0
    /\ inv[j].pc \in DrainPcs \cup {"single_wait"}

\* C26: with concurrent invocations sharing the device lock and a semaphore
\* of capacity at least 1, under fair scheduling every invocation
\* eventually returns.  No state is reached in which callers are left and
\* none of them can take a step; whenever a caller is blocked in acquire_sem
\* while it holds the device lock, another caller holds a token and gives it
\* back without needing the lock; and in the end every caller is done, so
\* none stays blocked for ever.
C26_EveryInvocationReturns ==
    /\ [](~AllDone => ENABLED Next)
    /\ [](\A i \in Callers :
            BlockedInAcquire(i) => \E j \in Callers \ {i} : ReleasesUnaided(j))
    /\ <>AllDone

\* one caller waits in acquire_sem with the device lock while the other, in
\* Draining, holds every token
C26_Witness ==
    \E i \in Callers : \E j \in Callers \ {i} :
        /\ BlockedInAcquire(i)
        /\ inv[j].pc \in DrainPcs
        /\ inv[j].sem_res_queue = max_num_infers_
        /\ max_num_infers_ >= 1

=============================================================================
